---- MODULE Spec2Model ----
(***************************************************************************)
(* The realtime audio session manager of src/components/LiveChat.tsx:      *)
(* startSession / connectWithRetry / stopSession, the callbacks handed to  *)
(* live.connect (onopen, onmessage, onclose) and the playback cursor and   *)
(* active source set they share.  Every await of the source is a point     *)
(* where the model lets any other callback of the event loop run.          *)
(***************************************************************************)
EXTENDS Integers, Sequences, FiniteSets, TLC

\* ---------------------------------------------------------------- bounds
\* startSession calls explored by the session specification
SessMaxStarts == 2
\* audio messages and clock ticks explored by the playback specification
PlayMaxMsgs == 2
PlayMaxClock == 2

\* ------------------------------------------------------ program constants
MAX_RETRIES == 3

\* ------------------------------------------------------------ error text
\* An error message is modelled by the set of fragments it contains, with
\* their case; String.toLowerCase maps each fragment to its lower case.
ToLower(f) ==
  CASE f = "API key" -> "api key"
    [] f = "API Key" -> "api key"
    [] f = "Permission denied" -> "permission denied"
    [] OTHER -> f

LowerCase(msg) == { ToLower(f) : f \in msg }

Includes(msg, needle) == needle \in msg

\* messages a rejected live.connect can carry
ConnErrors == { {"401"}, {"Permission denied"}, {"403"}, {"503"} }

\* messages a rejected getUserMedia can carry
MicErrors == { {"Permission denied"}, {"media device"} }

\* the Error thrown at line 138
ApiKeyMissing == {"API Key", "environment"}

\* values of the `error` state
NoError == [kind |-> "null", n |-> 0, msg |-> {}]
RetryMessage(attempt) == [kind |-> "retrying", n |-> attempt, msg |-> {}]
Friendly(cat) == [kind |-> cat, n |-> 0, msg |-> {}]

getFriendlyErrorMessage(err) ==
  LET msg == LowerCase(err) IN
  IF Includes(msg, "401") \/ Includes(msg, "unauthenticated") \/ Includes(msg, "api key")
    THEN Friendly("auth")
  ELSE IF Includes(msg, "403") \/ Includes(msg, "permission denied")
    THEN Friendly("permission")
  ELSE IF Includes(msg, "503") \/ Includes(msg, "unavailable") \/ Includes(msg, "overloaded")
    THEN Friendly("unavailable")
  ELSE IF Includes(msg, "network") \/ Includes(msg, "fetch") \/ Includes(msg, "failed to fetch")
    THEN Friendly("network")
  ELSE IF Includes(msg, "microphone") \/ Includes(msg, "media device")
    THEN Friendly("microphone")
  ELSE [kind |-> "generic", n |-> 0, msg |-> msg]

isFatal(err) ==
  Includes(err, "401") \/ Includes(err, "API key") \/ Includes(err, "Permission denied")

\* --------------------------------------------------- session configuration
LANGUAGES == {"English", "Hindi", "Tamil", "Telugu", "Malayalam", "Kannada"}
Modes == {"mama", "love"}

\* selectedLanguage before a language is chosen (null)
NoLanguage == "null"

\* The instruction text is modelled by the sequence of its telling fragments:
\* the persona's name, each ${lang}, and the voice directive.  A fragment
\* contains a word when it is the word, and "FEMALE" also contains "MALE".
getSystemInstruction(lang, mode) ==
  IF mode = "mama"
    THEN << "Mama", lang, "MALE", lang >>
    ELSE << "Priya", lang, "FEMALE", lang >>

Contains(fragment, word) ==
  fragment = word \/ (fragment = "FEMALE" /\ word = "MALE")

Mentions(instruction, word) ==
  \E i \in 1..Len(instruction) : Contains(instruction[i], word)

\* the voice taken from the default whatever the mode
voiceNameAlwaysPuck(mode) == "Puck"

\* line 176
voiceName(mode) == IF mode = "mama" THEN "Puck" ELSE "Kore"

\* a chain that has not called live.connect
NoConfig == [voiceName |-> "none", systemInstruction |-> << >>]

\* ----------------------------------------------------------------- state
VARIABLES
  mounted,                  \* the LiveChat component is on screen
  apiKey,                   \* process.env.API_KEY is set
  selectedLanguage, selectedMode,               \* useState, lines 21-22
  connected, error, isTalking, isRetrying,      \* useState, lines 15-18
  inputAudioContextRef, outputAudioContextRef,  \* 0 = null, else the context's id
  streamRef,                \* 0 = null, else the MediaStream's id
  processorRef, inputSourceRef,                 \* 0 = null, else the node's id
  sessionPromiseRef,        \* 0 = null, else the chain whose promise it holds
  nextStartTimeRef,         \* the playback cursor
  sourcesRef,               \* the active source set (handle ids)
  userInitiatedDisconnect,
  queued,                   \* chains on whose pending sessionPromise a captured frame waits
  chains,                   \* one record per startSession call, see NewChain
  currentTime,              \* outputAudioContextRef.current.currentTime
  msgs,                     \* one record per audio message handled, see OnMessage
  lastStarted,              \* history: the latest source.start since the cursor was last reset
  userStopped,              \* history: the user stopped and has not started since
  lastOp                    \* history: the handler that ran last

vars ==
  << mounted, apiKey, selectedLanguage, selectedMode, connected, error, isTalking, isRetrying,
     inputAudioContextRef, outputAudioContextRef, streamRef, processorRef,
     inputSourceRef, sessionPromiseRef, nextStartTimeRef, sourcesRef,
     userInitiatedDisconnect, queued, chains, currentTime, msgs,
     lastStarted, userStopped, lastOp >>

\* A chain is one startSession call and the connectWithRetry calls that follow
\* from it.  The objects it creates (audio contexts, microphone stream, the
\* connection of its current attempt, capture nodes) carry the chain's number.
\*   pc:      where the chain's code stands
\*   attempt: the argument of its connectWithRetry call, kept until the chain
\*            opens a connection
\*   conn:    the connection of its latest live.connect
\*   lang, mode: selectedLanguage and selectedMode of the render whose
\*            startSession was clicked, which the chain's closures keep
\*   config:  the config of its latest live.connect
NewChain ==
  [ pc |-> "start", attempt |-> 0, conn |-> "none",
    lang |-> selectedLanguage, mode |-> selectedMode, config |-> NoConfig,
    inCtx |-> "none", outCtx |-> "none", track |-> "none",
    procNode |-> "none", srcNode |-> "none" ]

Chains == DOMAIN chains
Handles == DOMAIN msgs

Max(a, b) == IF a >= b THEN a ELSE b

\* A source.start(start) of a buffer of duration dur, called when the clock
\* of the source's context read at; prev is the call before it since the
\* cursor was last reset.
NoStart == [start |-> 0, dur |-> 0, at |-> 0, prev |-> << >>]

\* the component as constructed, with lang and mode in the two selections
Constructed(lang, mode) ==
  /\ mounted = TRUE
  /\ apiKey \in BOOLEAN
  /\ selectedLanguage = lang
  /\ selectedMode = mode
  /\ connected = FALSE
  /\ error = NoError
  /\ isTalking = FALSE
  /\ isRetrying = FALSE
  /\ inputAudioContextRef = 0
  /\ outputAudioContextRef = 0
  /\ streamRef = 0
  /\ processorRef = 0
  /\ inputSourceRef = 0
  /\ sessionPromiseRef = 0
  /\ nextStartTimeRef = 0
  /\ sourcesRef = {}
  /\ userInitiatedDisconnect = FALSE
  /\ queued = {}
  /\ chains = << >>
  /\ currentTime = 0
  /\ msgs = << >>
  /\ lastStarted = NoStart
  /\ userStopped = FALSE
  /\ lastOp = "init"

\* the setup screen with a language chosen: the session lifecycle reads
\* neither selection
Init == Constructed("English", "mama")

\* the state after construction (lines 15-34)
InitConfig == Constructed(NoLanguage, "mama")

\* ------------------------------------------------------------ stopSession
\* the loop without its try/catch: a source that has already played to its
\* end throws, and the handles after it are not reached
StopSourcesNoCatch(m, set) ==
  IF \E h \in set : m[h].st = "playing" /\ m[h].ctx = outputAudioContextRef
                        /\ currentTime >= m[h].playEnd
    THEN m
    ELSE [ h \in DOMAIN m |->
             IF h \in set THEN [st |-> "stopped", intr |-> m[h].intr, ctx |-> m[h].ctx]
             ELSE m[h] ]

\* source.stop() inside try/catch, for every handle of the set (lines 83-85
\* and 264-266)
StopSources(m, set) ==
  [ h \in DOMAIN m |->
      IF h \in set THEN [st |-> "stopped", intr |-> m[h].intr, ctx |-> m[h].ctx]
      ELSE m[h] ]

\* the contexts left open: tracks and nodes only
StoppedChainsKeepContexts(ch) ==
  [ c \in DOMAIN ch |->
      [ ch[c] EXCEPT
          !.track = IF c = streamRef THEN "ended" ELSE @,
          !.procNode = IF c = processorRef THEN "off" ELSE @,
          !.srcNode = IF c = inputSourceRef THEN "off" ELSE @ ] ]

\* lines 62-80 on the objects the refs point to
StoppedChains(ch) ==
  [ c \in DOMAIN ch |->
      [ ch[c] EXCEPT
          !.inCtx = IF c = inputAudioContextRef /\ @ # "closed" THEN "closed" ELSE @,
          !.outCtx = IF c = outputAudioContextRef /\ @ # "closed" THEN "closed" ELSE @,
          !.track = IF c = streamRef THEN "ended" ELSE @,
          !.procNode = IF c = processorRef THEN "off" ELSE @,
          !.srcNode = IF c = inputSourceRef THEN "off" ELSE @ ] ]

\* stopSession without its setIsRetrying(false)
stopSessionKeepRetrying(ch) ==
  /\ userInitiatedDisconnect' = TRUE
  /\ chains' = StoppedChains(ch)
  /\ msgs' = StopSources(msgs, sourcesRef)
  /\ sourcesRef' = {}
  /\ inputAudioContextRef' = 0
  /\ outputAudioContextRef' = 0
  /\ streamRef' = 0
  /\ processorRef' = 0
  /\ sessionPromiseRef' = 0
  /\ nextStartTimeRef' = 0
  /\ connected' = FALSE
  /\ isTalking' = FALSE
  /\ currentTime' = 0
  /\ lastStarted' = NoStart
  /\ UNCHANGED << inputSourceRef, isRetrying >>

\* stopSession, lines 58-100; ch is the chains value of the calling handler
stopSession(ch) ==
  /\ userInitiatedDisconnect' = TRUE
  /\ chains' = StoppedChains(ch)
  /\ msgs' = StopSources(msgs, sourcesRef)
  /\ sourcesRef' = {}
  /\ inputAudioContextRef' = 0
  /\ outputAudioContextRef' = 0
  /\ streamRef' = 0
  /\ processorRef' = 0
  /\ sessionPromiseRef' = 0
  /\ nextStartTimeRef' = 0
  /\ connected' = FALSE
  /\ isTalking' = FALSE
  /\ isRetrying' = FALSE
  /\ currentTime' = 0
  /\ lastStarted' = NoStart
  /\ UNCHANGED inputSourceRef

\* the End Call button, shown on the active view only (lines 314, 437-442)
EndCall ==
  /\ mounted
  /\ connected \/ isRetrying
  /\ stopSession(chains)
  /\ userStopped' = TRUE
  /\ lastOp' = "stopSession"
  /\ UNCHANGED << error, mounted, apiKey, selectedLanguage, selectedMode, queued >>

\* The release operations of stopSession that can fail: close() of a context
\* rejecting (lines 63 and 66, caught by .catch), track.stop() throwing (line
\* 71, not caught), processor or input source disconnect() throwing (lines
\* 76-77, one try block for both).
ReleaseFailures == {"closeInput", "closeOutput", "track", "processor", "inputSource"}

\* lines 62-80 when the operation fail fails: a throw at line 71 ends
\* stopSession, a throw at line 76 skips line 77
StoppedChainsFailing(ch, fail) ==
  [ c \in DOMAIN ch |->
      [ ch[c] EXCEPT
          !.inCtx = IF c = inputAudioContextRef /\ @ # "closed" /\ fail # "closeInput"
                      THEN "closed" ELSE @,
          !.outCtx = IF c = outputAudioContextRef /\ @ # "closed" /\ fail # "closeOutput"
                       THEN "closed" ELSE @,
          !.track = IF c = streamRef /\ fail # "track" THEN "ended" ELSE @,
          !.procNode = IF c = processorRef /\ fail \notin {"track", "processor"}
                         THEN "off" ELSE @,
          !.srcNode = IF c = inputSourceRef /\ fail \notin {"track", "processor", "inputSource"}
                        THEN "off" ELSE @ ] ]

\* the release operation fail is one stopSession would run
Runs(fail) ==
  CASE fail = "closeInput" ->
         inputAudioContextRef # 0 /\ chains[inputAudioContextRef].inCtx # "closed"
    [] fail = "closeOutput" ->
         outputAudioContextRef # 0 /\ chains[outputAudioContextRef].outCtx # "closed"
    [] fail = "track" -> streamRef # 0
    [] fail = "processor" -> processorRef # 0
    [] fail = "inputSource" -> inputSourceRef # 0

\* End Call when the release operation fail of stopSession fails (lines 58-100)
EndCallFailing(fail) ==
  /\ mounted
  /\ connected \/ isRetrying
  /\ Runs(fail)
  /\ userInitiatedDisconnect' = TRUE
  /\ chains' = StoppedChainsFailing(chains, fail)
  /\ IF fail = "track"
       THEN \* the exception leaves stopSession at line 71
            UNCHANGED << msgs, sourcesRef, inputAudioContextRef,
                         outputAudioContextRef, streamRef, processorRef,
                         sessionPromiseRef, nextStartTimeRef, connected,
                         isTalking, isRetrying, currentTime, lastStarted >>
       ELSE /\ msgs' = StopSources(msgs, sourcesRef)
            /\ sourcesRef' = {}
            /\ inputAudioContextRef' = 0
            /\ outputAudioContextRef' = 0
            /\ streamRef' = 0
            /\ processorRef' = 0
            /\ sessionPromiseRef' = 0
            /\ nextStartTimeRef' = 0
            /\ connected' = FALSE
            /\ isTalking' = FALSE
            /\ isRetrying' = FALSE
            /\ currentTime' = 0
            /\ lastStarted' = NoStart
  /\ userStopped' = TRUE
  /\ lastOp' = "stopSession:failed"
  /\ UNCHANGED << error, mounted, apiKey, selectedLanguage, selectedMode, queued,
                  inputSourceRef >>

\* the unmount cleanup (lines 103-105): the component leaves the screen, its
\* pending promises, timers and connections go on
Unmount ==
  /\ mounted
  /\ stopSession(chains)
  /\ mounted' = FALSE
  /\ userStopped' = TRUE
  /\ lastOp' = "stopSession"
  /\ UNCHANGED << error, apiKey, selectedLanguage, selectedMode, queued >>

\* ------------------------------------------------------- the setup screen
\* a language button (line 328), on the setup screen (line 314)
SelectLanguage(lang) ==
  /\ mounted
  /\ ~connected /\ ~isRetrying
  /\ selectedLanguage' = lang
  /\ lastOp' = "select"
  /\ UNCHANGED << mounted, apiKey, selectedMode, queued, connected, error, isTalking,
                  isRetrying, inputAudioContextRef, outputAudioContextRef,
                  streamRef, processorRef, inputSourceRef, sessionPromiseRef,
                  nextStartTimeRef, sourcesRef, userInitiatedDisconnect, chains,
                  currentTime, msgs, lastStarted, userStopped >>

\* a mode button (lines 348 and 363)
SelectMode(mode) ==
  /\ mounted
  /\ ~connected /\ ~isRetrying
  /\ selectedMode' = mode
  /\ lastOp' = "select"
  /\ UNCHANGED << mounted, apiKey, selectedLanguage, queued, connected, error, isTalking,
                  isRetrying, inputAudioContextRef, outputAudioContextRef,
                  streamRef, processorRef, inputSourceRef, sessionPromiseRef,
                  nextStartTimeRef, sourcesRef, userInitiatedDisconnect, chains,
                  currentTime, msgs, lastStarted, userStopped >>

\* ------------------------------------------------------- connectWithRetry
\* lines 169-292 up to the await: the chain c calls live.connect
connectWithRetry(c, attempt, ch) ==
  /\ isRetrying' = (IF attempt > 0 THEN TRUE ELSE isRetrying)
  /\ error' = (IF attempt > 0 THEN RetryMessage(attempt) ELSE NoError)
  /\ chains' = [ch EXCEPT ![c].pc = "connect", ![c].attempt = attempt,
                          ![c].conn = "connecting",
                          ![c].config =
                             [voiceName |-> voiceName(ch[c].mode),
                              systemInstruction |->
                                getSystemInstruction(ch[c].lang, ch[c].mode)]]
  /\ sessionPromiseRef' = c

\* a retry too many: <= for <
ShouldRetryOffByOne(err, attempt) ==
  ~isFatal(err) /\ attempt <= MAX_RETRIES /\ ~userInitiatedDisconnect

\* the classification left out of the retry decision
ShouldRetryAnyError(err, attempt) ==
  attempt < MAX_RETRIES /\ ~userInitiatedDisconnect

\* line 303
ShouldRetry(err, attempt) ==
  ~isFatal(err) /\ attempt < MAX_RETRIES /\ ~userInitiatedDisconnect

\* why the catch block of connectWithRetry gave up (lines 305-309)
GaveUp(err, attempt) ==
  IF isFatal(err) THEN "fatal"
  ELSE IF attempt >= MAX_RETRIES THEN "exhausted"
  ELSE "cancelled"

\* ----------------------------------------------------------- startSession
\* Start Conversation (lines 127-160), clickable on the setup screen (line
\* 314) once a language is chosen (line 382), up to its first await
StartSession(maxStarts) ==
  /\ mounted
  /\ ~connected /\ ~isRetrying
  /\ selectedLanguage # NoLanguage
  /\ Len(chains) < maxStarts
  /\ LET c == Len(chains) + 1
         newIn == inputAudioContextRef = 0
         newOut == outputAudioContextRef = 0
         ch == Append(chains,
                 [NewChain EXCEPT
                    !.inCtx = IF newIn THEN "running" ELSE "none",
                    !.outCtx = IF newOut THEN "running" ELSE "none"])
     IN
     IF ~apiKey
       THEN \* line 138 throws, lines 162-166 catch
            /\ error' = getFriendlyErrorMessage(ApiKeyMissing)
            /\ stopSession(Append(chains, [NewChain EXCEPT !.pc = "setupfail"]))
       ELSE /\ inputAudioContextRef' = (IF newIn THEN c ELSE inputAudioContextRef)
            /\ outputAudioContextRef' = (IF newOut THEN c ELSE outputAudioContextRef)
            /\ currentTime' = (IF newOut THEN 0 ELSE currentTime)
            /\ userInitiatedDisconnect' = FALSE
            /\ IF streamRef = 0 \/ chains[streamRef].track # "live"
                 THEN \* await getUserMedia
                      /\ chains' = [ch EXCEPT ![c].pc = "mic"]
                      /\ error' = NoError
                      /\ UNCHANGED << isRetrying, sessionPromiseRef >>
                 ELSE connectWithRetry(c, 0, ch)
            /\ UNCHANGED << connected, isTalking, streamRef, processorRef,
                            inputSourceRef, nextStartTimeRef, sourcesRef, msgs,
                            lastStarted >>
  /\ userStopped' = FALSE
  /\ lastOp' = "startSession"
  /\ UNCHANGED << mounted, apiKey, selectedLanguage, selectedMode, queued >>

\* getUserMedia resolves (lines 155-160): the chain keeps the stream and calls
\* connectWithRetry(0)
MicResolve(c) ==
  /\ c \in Chains
  /\ chains[c].pc = "mic"
  /\ streamRef' = c
  /\ connectWithRetry(c, 0, [chains EXCEPT ![c].track = "live"])
  /\ lastOp' = "micResolve"
  /\ UNCHANGED << mounted, apiKey, selectedLanguage, selectedMode, queued, connected, isTalking, inputAudioContextRef,
                  outputAudioContextRef, processorRef, inputSourceRef,
                  nextStartTimeRef, sourcesRef, userInitiatedDisconnect,
                  currentTime, msgs, lastStarted, userStopped >>

\* getUserMedia rejects: the catch of startSession (lines 162-166)
MicReject(c, err) ==
  /\ c \in Chains
  /\ chains[c].pc = "mic"
  /\ error' = getFriendlyErrorMessage(err)
  /\ stopSession([chains EXCEPT ![c].pc = "setupfail"])
  /\ lastOp' = "setupError"
  /\ UNCHANGED << mounted, apiKey, selectedLanguage, selectedMode, queued, userStopped >>

\* the connection opens: onopen (lines 185-226), then sessionPromise resolves,
\* the callbacks the capture tap chained to it send their frames (line 218)
\* and connectWithRetry returns
ConnectOpen(c) ==
  /\ c \in Chains
  /\ chains[c].pc = "connect"
  /\ connected' = TRUE
  /\ isRetrying' = FALSE
  /\ error' = NoError
  /\ IF inputAudioContextRef = 0 \/ streamRef = 0
       THEN \* line 199
            /\ chains' = [chains EXCEPT ![c].pc = "open", ![c].attempt = 0,
                                   ![c].conn = "open"]
            /\ UNCHANGED << inputSourceRef, processorRef >>
       ELSE \* lines 202-225: the old nodes are disconnected, new ones made
            /\ chains' =
                 [ k \in Chains |->
                     IF k = c
                       THEN [chains[k] EXCEPT !.pc = "open", !.attempt = 0, !.conn = "open",
                                              !.srcNode = "on", !.procNode = "on"]
                       ELSE [chains[k] EXCEPT
                               !.srcNode = IF k = inputSourceRef THEN "off" ELSE @,
                               !.procNode = IF k = processorRef THEN "off" ELSE @] ]
            /\ inputSourceRef' = c
            /\ processorRef' = c
  /\ queued' = queued \ {c}
  /\ lastOp' = "onopen"
  /\ UNCHANGED << mounted, apiKey, selectedLanguage, selectedMode, isTalking, inputAudioContextRef,
                  outputAudioContextRef, streamRef, sessionPromiseRef,
                  nextStartTimeRef, sourcesRef, userInitiatedDisconnect,
                  currentTime, msgs, lastStarted, userStopped >>

\* sessionPromise rejects with err: the callbacks chained to it drop their
\* frames (line 219) and the catch of connectWithRetry runs (lines 294-310)
ConnectFail(c, err) ==
  /\ c \in Chains
  /\ chains[c].pc = "connect"
  /\ IF ShouldRetry(err, chains[c].attempt)
       THEN \* setTimeout(..., RETRY_DELAY_MS)
            /\ chains' = [chains EXCEPT ![c].pc = "timer", ![c].conn = "failed"]
            /\ UNCHANGED << connected, error, isTalking, isRetrying,
                            inputAudioContextRef, outputAudioContextRef, streamRef,
                            processorRef, inputSourceRef, sessionPromiseRef,
                            nextStartTimeRef, sourcesRef, userInitiatedDisconnect,
                            currentTime, msgs, lastStarted >>
       ELSE /\ error' = getFriendlyErrorMessage(err)
            /\ stopSession([chains EXCEPT ![c].pc = GaveUp(err, chains[c].attempt),
                                          ![c].conn = "failed"])
  /\ queued' = queued \ {c}
  /\ lastOp' = "connectFailed"
  /\ UNCHANGED << mounted, apiKey, selectedLanguage, selectedMode, userStopped >>

\* the retry timer fires: connectWithRetry(attempt + 1) (line 304)
RetryTimer(c) ==
  /\ c \in Chains
  /\ chains[c].pc = "timer"
  /\ connectWithRetry(c, chains[c].attempt + 1, chains)
  /\ lastOp' = "retryTimer"
  /\ UNCHANGED << mounted, apiKey, selectedLanguage, selectedMode, queued, connected, isTalking, inputAudioContextRef,
                  outputAudioContextRef, streamRef, processorRef, inputSourceRef,
                  nextStartTimeRef, sourcesRef, userInitiatedDisconnect,
                  currentTime, msgs, lastStarted, userStopped >>

\* an open connection closes: onclose (lines 272-276)
ConnClose(c) ==
  /\ c \in Chains
  /\ chains[c].conn = "open"
  /\ chains' = [chains EXCEPT ![c].conn = "closed"]
  /\ connected' = FALSE
  /\ isTalking' = FALSE
  /\ lastOp' = "onclose"
  /\ UNCHANGED << mounted, apiKey, selectedLanguage, selectedMode, queued, error, isRetrying, inputAudioContextRef,
                  outputAudioContextRef, streamRef, processorRef, inputSourceRef,
                  sessionPromiseRef, nextStartTimeRef, sourcesRef,
                  userInitiatedDisconnect, currentTime, msgs, lastStarted,
                  userStopped >>

\* the connection reports an error: onerror (lines 277-280) logs it
ConnError(c) ==
  /\ c \in Chains
  /\ chains[c].conn = "open"
  /\ lastOp' = "onerror"
  /\ UNCHANGED << mounted, apiKey, selectedLanguage, selectedMode, queued, connected,
                  error, isTalking, isRetrying, inputAudioContextRef,
                  outputAudioContextRef, streamRef, processorRef, inputSourceRef,
                  sessionPromiseRef, nextStartTimeRef, sourcesRef,
                  userInitiatedDisconnect, chains, currentTime, msgs, lastStarted,
                  userStopped >>

\* ---------------------------------------------------------------- capture
\* what becomes of a frame handed to sessionPromiseRef.current?.then(...)
\* (lines 217-221): dropped when the ref is null or its promise rejected,
\* queued while the promise is pending, sent on the session when the promise
\* has resolved, whether that connection is still open or has closed
FrameFate ==
  IF sessionPromiseRef = 0 THEN "capture:dropped"
  ELSE CASE chains[sessionPromiseRef].conn = "connecting" -> "capture:queued"
         [] chains[sessionPromiseRef].conn = "open" -> "capture:sent"
         [] chains[sessionPromiseRef].conn = "closed" -> "capture:sentClosed"
         [] OTHER -> "capture:dropped"

\* the capture tap of chain k delivers a window: onaudioprocess (lines 213-222)
Capture(k) ==
  /\ k \in Chains
  /\ chains[k].procNode = "on"
  /\ queued' = (IF FrameFate = "capture:queued"
                  THEN queued \cup {sessionPromiseRef} ELSE queued)
  /\ lastOp' = FrameFate
  /\ UNCHANGED << mounted, apiKey, selectedLanguage, selectedMode, connected,
                  error, isTalking, isRetrying, inputAudioContextRef,
                  outputAudioContextRef, streamRef, processorRef, inputSourceRef,
                  sessionPromiseRef, nextStartTimeRef, sourcesRef,
                  userInitiatedDisconnect, chains, currentTime, msgs, lastStarted,
                  userStopped >>

\* --------------------------------------------------------------- playback
\* The output context's clock advances while the context exists.
Tick(maxClock) ==
  /\ outputAudioContextRef # 0
  /\ currentTime < maxClock
  /\ currentTime' = currentTime + 1
  /\ lastOp' = "tick"
  /\ UNCHANGED << mounted, apiKey, selectedLanguage, selectedMode, queued, connected, error, isTalking, isRetrying,
                  inputAudioContextRef, outputAudioContextRef, streamRef,
                  processorRef, inputSourceRef, sessionPromiseRef,
                  nextStartTimeRef, sourcesRef, userInitiatedDisconnect, chains,
                  msgs, lastStarted, userStopped >>

\* durations of the decoded buffers
Durations == {1, 2}

\* A handle is one audio message from its arrival on: st is "decoding" while
\* its handler awaits decodeAudioData, "playing" once source.start was called,
\* "stopped" once source.stop was called, "done" when its handler dropped it
\* or its ended listener has run.  ctx is the outputCtx the handler captured
\* (line 228), intr the message's interrupted marker, playEnd the time at
\* which a playing source has sounded to its end, was the talking flag the
\* handler found when it was entered (history).
NoHandle == [st |-> "done", intr |-> FALSE, ctx |-> 0]

\* when a source started with start(start) at clock at stops sounding: a start
\* time in the past plays at once
PlayEnd(start, at, dur) == Max(start, at) + dur

\* the cursor taken from the clock whatever it was
ClampAlways(cursor, now) == now

\* lines 234-237
Clamp(cursor, now) == IF cursor < now THEN now ELSE cursor

\* the interrupted branch (lines 262-270) on the handles m and the set
Interrupted(m, set) ==
  /\ msgs' = StopSources(m, set)
  /\ sourcesRef' = {}
  /\ nextStartTimeRef' = 0
  /\ isTalking' = FALSE
  /\ lastStarted' = NoStart

\* onmessage (lines 227-271) up to its await, or to its end when the message
\* carries no audio
OnMessage(c, audio, intr, maxMsgs) ==
  /\ c \in Chains
  /\ chains[c].conn = "open"
  /\ audio \/ intr
  /\ IF outputAudioContextRef = 0
       THEN \* line 229
            /\ lastOp' = "onmessage:ignored"
            /\ UNCHANGED << isTalking, nextStartTimeRef, sourcesRef, msgs, lastStarted >>
       ELSE IF audio
         THEN /\ Len(msgs) < maxMsgs
              /\ isTalking' = TRUE
              /\ nextStartTimeRef' = Clamp(nextStartTimeRef, currentTime)
              /\ msgs' = Append(msgs, [st |-> "decoding", intr |-> intr,
                                         ctx |-> outputAudioContextRef,
                                         was |-> isTalking])
              /\ lastOp' = "onmessage:audio"
              /\ UNCHANGED << sourcesRef, lastStarted >>
         ELSE /\ Interrupted(msgs, sourcesRef)
              /\ lastOp' = "onmessage:interrupted"
  /\ UNCHANGED << mounted, apiKey, selectedLanguage, selectedMode, queued, connected, error, isRetrying,
                  inputAudioContextRef, outputAudioContextRef, streamRef,
                  processorRef, inputSourceRef, sessionPromiseRef,
                  userInitiatedDisconnect, chains, currentTime, userStopped >>

\* decodeAudioData resolves with a buffer of duration d: lines 243-256, then
\* the interrupted branch if the message carries the marker
DecodeDone(h, d) ==
  /\ h \in Handles
  /\ msgs[h].st = "decoding"
  /\ LET live == msgs[h].ctx = outputAudioContextRef
         started == [msgs EXCEPT ![h] =
                       [st |-> "playing", intr |-> @.intr, ctx |-> @.ctx,
                        playEnd |-> IF live
                                      THEN PlayEnd(nextStartTimeRef, currentTime, d)
                                      ELSE 0]]
     IN
     IF msgs[h].intr
       THEN /\ Interrupted(started, sourcesRef \cup {h})
            /\ lastOp' = "onmessage:interrupted"
       ELSE /\ msgs' = started
            /\ nextStartTimeRef' = nextStartTimeRef + d
            /\ sourcesRef' = sourcesRef \cup {h}
            /\ lastStarted' = [start |-> nextStartTimeRef, dur |-> d,
                               at |-> currentTime,
                               prev |-> IF lastStarted = NoStart THEN << >>
                                        ELSE << [start |-> lastStarted.start,
                                                 dur |-> lastStarted.dur,
                                                 at |-> lastStarted.at] >>]
            /\ lastOp' = "onmessage:scheduled"
            /\ UNCHANGED isTalking
  /\ UNCHANGED << mounted, apiKey, selectedLanguage, selectedMode, queued, connected, error, isRetrying,
                  inputAudioContextRef, outputAudioContextRef, streamRef,
                  processorRef, inputSourceRef, sessionPromiseRef,
                  userInitiatedDisconnect, chains, currentTime, userStopped >>

\* decodeAudioData rejects: the catch at lines 257-259, then the interrupted
\* branch if the message carries the marker
DecodeFail(h) ==
  /\ h \in Handles
  /\ msgs[h].st = "decoding"
  /\ LET dropped == [msgs EXCEPT ![h] = NoHandle] IN
     IF msgs[h].intr
       THEN /\ Interrupted(dropped, sourcesRef)
            /\ lastOp' = "onmessage:interrupted"
       ELSE /\ msgs' = dropped
            /\ lastOp' = "onmessage:dropped"
            /\ UNCHANGED << isTalking, nextStartTimeRef, sourcesRef, lastStarted >>
  /\ UNCHANGED << mounted, apiKey, selectedLanguage, selectedMode, queued, connected, error, isRetrying,
                  inputAudioContextRef, outputAudioContextRef, streamRef,
                  processorRef, inputSourceRef, sessionPromiseRef,
                  userInitiatedDisconnect, chains, currentTime, userStopped >>

\* a source has played to its end on the live output context, or was stopped
Finished(h) ==
  \/ msgs[h].st = "stopped"
  \/ /\ msgs[h].st = "playing"
     /\ msgs[h].ctx = outputAudioContextRef
     /\ currentTime >= msgs[h].playEnd

\* the ended listener of a source (lines 247-252)
Ended(h) ==
  /\ h \in Handles
  /\ Finished(h)
  /\ sourcesRef' = sourcesRef \ {h}
  /\ isTalking' = (IF sourcesRef \ {h} = {} THEN FALSE ELSE isTalking)
  /\ msgs' = [msgs EXCEPT ![h] = NoHandle]
  /\ lastOp' = "ended"
  /\ UNCHANGED << mounted, apiKey, selectedLanguage, selectedMode, queued, connected, error, isRetrying,
                  inputAudioContextRef, outputAudioContextRef, streamRef,
                  processorRef, inputSourceRef, sessionPromiseRef,
                  nextStartTimeRef, userInitiatedDisconnect, chains, currentTime,
                  lastStarted, userStopped >>

\* ---------------------------------------------------------- specification
\* the session lifecycle: start, stop, microphone, connection and retry events
Next ==
  \/ StartSession(SessMaxStarts)
  \/ EndCall
  \/ Unmount
  \/ \E c \in Chains : MicResolve(c)
  \/ \E c \in Chains, err \in MicErrors : MicReject(c, err)
  \/ \E c \in Chains : ConnectOpen(c)
  \/ \E c \in Chains, err \in ConnErrors : ConnectFail(c, err)
  \/ \E c \in Chains : RetryTimer(c)
  \/ \E c \in Chains : ConnClose(c)
  \/ \E c \in Chains : ConnError(c)

Spec == Init /\ [][Next]_vars

\* The environment's part: a microphone request and a connection attempt
\* resolve or reject in the end, and a timer that was set fires.
MicSettles(c) == MicResolve(c) \/ \E err \in MicErrors : MicReject(c, err)
ConnSettles(c) == ConnectOpen(c) \/ \E err \in ConnErrors : ConnectFail(c, err)

SpecSettle ==
  /\ Init /\ [][Next]_vars
  /\ \A c \in 1..SessMaxStarts :
       WF_vars(MicSettles(c)) /\ WF_vars(ConnSettles(c)) /\ WF_vars(RetryTimer(c))

\* the session lifecycle with the frames of the capture tap
NextCapture ==
  \/ Next
  \/ \E k \in Chains : Capture(k)

SpecCapture == Init /\ [][NextCapture]_vars

\* the session lifecycle with release operations that fail
NextTeardown ==
  \/ Next
  \/ \E fail \in ReleaseFailures : EndCallFailing(fail)

SpecTeardown == Init /\ [][NextTeardown]_vars

\* one startSession with its lifecycle, its inbound messages and its playback
NextPlayback ==
  \/ StartSession(1)
  \/ EndCall
  \/ Unmount
  \/ \E c \in Chains : MicResolve(c)
  \/ \E c \in Chains, err \in MicErrors : MicReject(c, err)
  \/ \E c \in Chains : ConnectOpen(c)
  \/ \E c \in Chains, err \in ConnErrors : ConnectFail(c, err)
  \/ \E c \in Chains : RetryTimer(c)
  \/ \E c \in Chains : ConnClose(c)
  \/ Tick(PlayMaxClock)
  \/ \E c \in Chains, audio \in BOOLEAN, intr \in BOOLEAN :
       OnMessage(c, audio, intr, PlayMaxMsgs)
  \/ \E h \in Handles, d \in Durations : DecodeDone(h, d)
  \/ \E h \in Handles : DecodeFail(h)
  \/ \E h \in Handles : Ended(h)

SpecPlayback == Init /\ [][NextPlayback]_vars

\* one startSession with the selections of the setup screen before and
\* around it
NextConfig ==
  \/ \E lang \in LANGUAGES : SelectLanguage(lang)
  \/ \E mode \in Modes : SelectMode(mode)
  \/ StartSession(1)
  \/ EndCall
  \/ Unmount
  \/ \E c \in Chains : MicResolve(c)
  \/ \E c \in Chains, err \in MicErrors : MicReject(c, err)
  \/ \E c \in Chains : ConnectOpen(c)
  \/ \E c \in Chains, err \in ConnErrors : ConnectFail(c, err)
  \/ \E c \in Chains : RetryTimer(c)
  \/ \E c \in Chains : ConnClose(c)

SpecConfig == InitConfig /\ [][NextConfig]_vars

\* ------------------------------------------------------------------ claims
\* steps in which stopSession ran
StopRan == lastOp \in {"stopSession", "setupError"}
             \/ (lastOp \in {"connectFailed", "startSession"} /\ userInitiatedDisconnect)

\* C1: in a run with one startSession and no user stop, the attempt number
\* of the chain only ever rises by one, from a fired retry timer that a failed
\* attempt scheduled, and never above MAX_RETRIES; the chain gives up on a
\* transient error only on attempt MAX_RETRIES, and that step leaves
\* connected = false, retrying = false and error = the friendly message of the
\* error of that last attempt; after it the chain makes no further attempt.
C1_RetryBound ==
  [][ \A c \in Chains :
        (Len(chains) = 1 /\ ~userStopped) =>
          /\ chains'[c].attempt <= MAX_RETRIES
          /\ chains'[c].attempt # chains[c].attempt =>
               \/ /\ chains'[c].attempt = chains[c].attempt + 1
                  /\ chains[c].pc = "timer"
                  /\ chains[c].conn = "failed"
               \/ chains'[c].pc = "open"
          /\ chains[c].pc = "exhausted" =>
               /\ chains'[c].pc = "exhausted"
               /\ chains'[c].conn = "failed"
          /\ \A err \in ConnErrors :
               (~isFatal(err) /\ ConnectFail(c, err) /\ chains'[c].pc # "timer") =>
                 /\ chains[c].attempt = MAX_RETRIES
                 /\ chains'[c].pc = "exhausted"
                 /\ ~connected' /\ ~isRetrying'
                 /\ error' = getFriendlyErrorMessage(err) ]_vars

C1_Witness ==
  /\ Len(chains) = 1 /\ ~userStopped
  /\ lastOp = "connectFailed"
  /\ chains[1].pc = "exhausted" /\ chains[1].attempt = MAX_RETRIES
  /\ ~connected /\ ~isRetrying /\ error = Friendly("unavailable")

\* C2 (as claimed): once the user has stopped while a retry timer is pending,
\* the firing timer opens no new connection attempt.
C2_StopSuppressesRetry ==
  [][ \A c \in Chains :
        (userStopped /\ chains[c].pc = "timer") => chains'[c].conn # "connecting" ]_vars

C4_StopSticks == (mounted /\ userStopped) => (~connected /\ ~isRetrying)

\* what stopSession is claimed to leave: no live microphone track, no open
\* audio context and no reference to one, no playing source and an empty set,
\* and the three flags false
AllReleased ==
  /\ \A c \in Chains : /\ chains[c].track # "live"
                       /\ chains[c].inCtx # "running"
                       /\ chains[c].outCtx # "running"
  /\ inputAudioContextRef = 0 /\ outputAudioContextRef = 0
  /\ \A h \in Handles : msgs[h].st # "playing"
  /\ sourcesRef = {}
  /\ ~connected /\ ~isTalking /\ ~isRetrying

\* a second stopSession would change nothing
StopChangesNothing ==
  /\ userInitiatedDisconnect
  /\ chains = StoppedChains(chains)
  /\ msgs = StopSources(msgs, sourcesRef)
  /\ sourcesRef = {}
  /\ inputAudioContextRef = 0 /\ outputAudioContextRef = 0 /\ streamRef = 0
  /\ processorRef = 0 /\ sessionPromiseRef = 0 /\ nextStartTimeRef = 0
  /\ ~connected /\ ~isTalking /\ ~isRetrying

\* C5 (as claimed): after stopSession every microphone track is stopped, both
\* audio contexts are closed and their references cleared, every source is
\* stopped and the set empty, the flags are false, and a second call would
\* change nothing.
C5_StopReleasesAll ==
  lastOp = "stopSession" => (AllReleased /\ StopChangesNothing)

\* the session is Disconnected: stopSession has run since the last start and
\* the flags show neither connected nor retrying
Disconnected == userInitiatedDisconnect /\ ~connected /\ ~isRetrying

\* C6 (as claimed): while the session is Disconnected no connection is open
\* or in flight.
C6_DisconnectedClosesConnection ==
  Disconnected => \A c \in Chains : chains[c].conn \notin {"connecting", "open"}

\* C7 (as claimed): of two consecutive source.start calls with no cursor reset
\* between them the second has no smaller start time, and if it is called
\* before the first buffer has sounded to its end, its start time is the first
\* one's start time plus duration.
C7_Gapless ==
  lastStarted.prev # << >> =>
    LET p == lastStarted.prev[1] IN
    /\ lastStarted.start >= p.start
    /\ lastStarted.at < PlayEnd(p.start, p.at, p.dur) =>
         lastStarted.start = p.start + p.dur

\* C8 (as claimed): a buffer is started at max(cursor, clock) read when it is
\* scheduled, so never before the clock at the moment of source.start, and
\* right after scheduling the cursor is start + duration.
C8_StartNotInPast ==
  /\ lastStarted # NoStart => lastStarted.start >= lastStarted.at
  /\ lastOp = "onmessage:scheduled" =>
       nextStartTimeRef = lastStarted.start + lastStarted.dur

\* the handlers of one session: message, ended and close steps
HandlerOps ==
  { "onmessage:audio", "onmessage:scheduled", "onmessage:dropped",
    "onmessage:interrupted", "onmessage:ignored", "ended", "onclose" }

\* C9 (as claimed): no handler step makes the cursor smaller.
C9_CursorNeverDecreases ==
  [][ lastOp' \in HandlerOps => nextStartTimeRef' >= nextStartTimeRef ]_vars

\* C9 (amended): a step makes the cursor smaller only by resetting it to 0,
\* and only the handling of an interruption or stopSession does; every other
\* step (audio message, source ended, close, tick) leaves it or raises it.
C9_CursorDecreasesOnlyByReset ==
  [][ \/ nextStartTimeRef' >= nextStartTimeRef
      \/ /\ nextStartTimeRef' = 0
         /\ lastOp' = "onmessage:interrupted" \/ StopRan' ]_vars

C9_Witness ==
  /\ lastOp = "onmessage:scheduled"
  /\ lastStarted.prev # << >>
  /\ nextStartTimeRef > lastStarted.prev[1].start + lastStarted.prev[1].dur

\* C10: a message with the interrupted marker, handled while the session has an
\* output context, stops every handle of the set, however many and whether or
\* not one has already played to its end, and leaves the set empty, the cursor
\* at 0 and talking = false; a second interruption right after it changes
\* nothing of the playback state.
C10_Interruption ==
  [][ lastOp' = "onmessage:interrupted" =>
        /\ \A h \in sourcesRef : msgs'[h].st = "stopped"
        /\ \A h \in DOMAIN msgs' : msgs'[h].st # "playing"
        /\ sourcesRef' = {} /\ nextStartTimeRef' = 0 /\ ~isTalking'
        /\ (lastOp = "onmessage:interrupted" /\ Len(msgs') = Len(msgs)
              /\ \A h \in Handles : msgs[h].st # "decoding") =>
             UNCHANGED << msgs, sourcesRef, nextStartTimeRef, isTalking >> ]_vars

C10_Witness ==
  /\ lastOp = "onmessage:interrupted"
  /\ outputAudioContextRef # 0
  /\ Cardinality({ h \in Handles : msgs[h].st = "stopped" }) >= 2
  /\ sourcesRef = {} /\ nextStartTimeRef = 0 /\ ~isTalking

\* the session is Active: the flag shows connected and a connection is open
Active == connected /\ \E c \in Chains : chains[c].conn = "open"

\* no onmessage handler stands at its await
Quiescent == \A h \in Handles : msgs[h].st # "decoding"

\* C11 (as claimed): in every quiescent state of an Active session talking is
\* true exactly when the active source set is non-empty.
C11_TalkingTracksSources ==
  (Active /\ Quiescent) => (isTalking <=> sourcesRef # {})

\* C12 (as claimed): a handler whose decode fails drops the frame: it adds no
\* handle to the set, leaves connected as it is, and leaves the talking flag
\* at the value it had when the handler was entered.
C12_DecodeFailureLocal ==
  [][ \A h \in Handles :
        (lastOp' = "onmessage:dropped" /\ msgs[h].st = "decoding" /\ msgs'[h] = NoHandle) =>
          /\ sourcesRef' = sourcesRef
          /\ connected' = connected
          /\ isTalking' = msgs[h].was ]_vars

\* C13: the config of every live.connect is determined by the language and
\* mode chosen when Start was clicked: mode mama gives voice Puck and an
\* instruction with the MALE directive, mode love gives voice Kore and an
\* instruction with the FEMALE directive, and the instruction names the chosen
\* language and none of the other five.
C13_ConfigFromSelection ==
  \A c \in Chains :
    chains[c].config # NoConfig =>
      LET config == chains[c].config IN
      /\ chains[c].lang \in LANGUAGES
      /\ chains[c].mode = "mama" =>
           /\ config.voiceName = "Puck"
           /\ Mentions(config.systemInstruction, "MALE")
      /\ chains[c].mode = "love" =>
           /\ config.voiceName = "Kore"
           /\ Mentions(config.systemInstruction, "FEMALE")
      /\ \A lang \in LANGUAGES :
           Mentions(config.systemInstruction, lang) <=> lang = chains[c].lang

C13_Witness ==
  \E c \in Chains :
    /\ chains[c].conn = "connecting" /\ chains[c].attempt > 0
    /\ chains[c].lang = "Tamil" /\ chains[c].mode = "love"
    /\ selectedLanguage = "English" /\ selectedMode = "mama"
    /\ chains[c].config.voiceName = "Kore"

\* C14: the step in which a startSession fails in its setup (credential
\* missing, or getUserMedia rejected) shows an error, leaves connected,
\* talking and retrying false, leaves that call without a connection attempt
\* or retry timer, and releases what was acquired: the contexts the call
\* created and whatever the refs held are closed or stopped and the refs are
\* cleared.  The call never makes a connection attempt later, and while no
\* other startSession has been made the flags stay false and the error stays.
C14_SetupFailureFatal ==
  [][ /\ \A c \in DOMAIN chains' :
           (chains'[c].pc = "setupfail" /\ (c \in Chains => chains[c].pc # "setupfail")) =>
             /\ chains'[c].conn = "none"
             /\ error'.kind \in {"auth", "permission", "microphone"}
             /\ ~connected' /\ ~isTalking' /\ ~isRetrying'
             /\ chains'[c].inCtx # "running" /\ chains'[c].outCtx # "running"
             /\ chains'[c].track # "live"
             /\ \A k \in Chains :
                  /\ k = inputAudioContextRef => chains'[k].inCtx = "closed"
                  /\ k = outputAudioContextRef => chains'[k].outCtx = "closed"
                  /\ k = streamRef => chains'[k].track = "ended"
             /\ inputAudioContextRef' = 0 /\ outputAudioContextRef' = 0
             /\ streamRef' = 0 /\ sourcesRef' = {}
      /\ \A c \in Chains :
           chains[c].pc = "setupfail" =>
             /\ chains'[c].pc = "setupfail" /\ chains'[c].conn = "none"
             /\ (Len(chains') = 1) =>
                  (error' = error /\ ~connected' /\ ~isTalking' /\ ~isRetrying') ]_vars

C14_Witness ==
  \E c \in Chains :
    /\ lastOp = "setupError"
    /\ chains[c].pc = "setupfail" /\ chains[c].conn = "none"
    /\ chains[c].inCtx = "closed" /\ chains[c].outCtx = "closed"
    /\ error = Friendly("microphone")
    /\ ~connected /\ ~isTalking /\ ~isRetrying

\* C15 (as claimed): after onclose the microphone is released and the capture
\* tap delivers no more frames.
C15_CloseStopsCapture ==
  [][ lastOp' = "onclose" =>
        \A k \in Chains : chains'[k].track # "live" /\ chains'[k].procNode # "on" ]_vars

\* C16 (as claimed): when an open connection of a session the user has not
\* stopped fails (onerror, then onclose), the session shows retrying and a new
\* connection attempt of that session is in flight or scheduled.
C16_MidSessionReconnect ==
  [][ \A c \in Chains :
        (lastOp = "onerror" /\ lastOp' = "onclose" /\ ~userStopped
           /\ chains[c].conn = "open" /\ chains'[c].conn = "closed") =>
          /\ isRetrying'
          /\ chains'[c].pc \in {"connect", "timer"} ]_vars

\* C17 (as claimed): a captured frame is sent only when the connection its
\* callback finds is open when the frame is produced; otherwise it is dropped:
\* it is neither sent on a closed connection nor kept to be sent when a
\* connection opens.
C17_FramesOnlyWhileOpen ==
  [][ /\ lastOp' \in {"capture:sent", "capture:sentClosed", "capture:queued",
                      "capture:dropped"} =>
           /\ queued' = queued
           /\ lastOp' = (IF sessionPromiseRef # 0 /\ chains[sessionPromiseRef].conn = "open"
                           THEN "capture:sent" ELSE "capture:dropped")
      /\ \A c \in Chains :
           (chains[c].conn = "connecting" /\ chains'[c].conn = "open") => c \notin queued ]_vars

\* C18 (as claimed): a connection error that getFriendlyErrorMessage presents
\* in the auth or permission category is never retried, and an error the retry
\* policy classifies as fatal is presented in one of those two categories.
C18_FatalMatchesCategory ==
  [][ \A c \in Chains, err \in ConnErrors :
        (chains[c].pc = "connect" /\ ConnectFail(c, err)) =>
          /\ getFriendlyErrorMessage(err).kind \in {"auth", "permission"} =>
               (isFatal(err) /\ chains'[c].pc # "timer")
          /\ isFatal(err) =>
               getFriendlyErrorMessage(err).kind \in {"auth", "permission"} ]_vars

\* C19 (as claimed): handles are numbered in arrival order; when a handle is
\* scheduled, no handle that arrived after it has been scheduled before it.
C19_PlaybackInArrivalOrder ==
  [][ \A h \in Handles :
        (lastOp' = "onmessage:scheduled" /\ msgs[h].st = "decoding"
           /\ msgs'[h].st = "playing") =>
          \A h2 \in sourcesRef : h2 < h ]_vars

\* C20 (as claimed): at most one connection is in flight or open.
C20_OneConnection ==
  Cardinality({ c \in Chains : chains[c].conn \in {"connecting", "open"} }) <= 1

\* startSession creates audio contexts only when the refs are null, which
\* after the first call they are only once stopSession has run: the session
\* of chain c is superseded when a later call created its own contexts
Superseded(c) == \E c2 \in Chains : c2 > c /\ chains[c2].outCtx # "none"

\* C21 (as claimed): an onopen or onclose of a connection of a superseded
\* session changes none of connected, talking, retrying, the playback cursor
\* and the active source set.
C21_StaleEventsIgnored ==
  [][ \A c \in Chains :
        (Superseded(c) /\ lastOp' \in {"onopen", "onclose"}
           /\ chains'[c].conn # chains[c].conn) =>
          UNCHANGED << connected, isTalking, isRetrying, nextStartTimeRef, sourcesRef >> ]_vars

\* C22 (as claimed): a handler that stands at its decode when an interruption
\* or stopSession clears the set does not start its buffer or add it to the
\* set afterwards: no buffer is scheduled in the step right after an
\* interruption was handled, nor by a handler whose output context stopSession
\* has since taken from the ref.
C22_NoScheduleAfterClear ==
  [][ \A h \in Handles :
        (msgs[h].st = "decoding" /\ msgs'[h].st = "playing" /\ h \in sourcesRef') =>
          /\ lastOp # "onmessage:interrupted"
          /\ msgs[h].ctx = outputAudioContextRef ]_vars

\* C23 (as claimed): a stopSession in which one release operation fails ends
\* in the state of a failure-free stop (references cleared, set empty,
\* connected, talking and retrying false), and every other release step has
\* run: of what the refs held, at most the object of the failed operation is
\* left unreleased.
C23_TeardownCompletes ==
  [][ lastOp' = "stopSession:failed" =>
        /\ inputAudioContextRef' = 0 /\ outputAudioContextRef' = 0
        /\ streamRef' = 0 /\ processorRef' = 0 /\ sessionPromiseRef' = 0
        /\ sourcesRef' = {}
        /\ ~connected' /\ ~isTalking' /\ ~isRetrying'
        /\ Cardinality(
             { op \in ReleaseFailures :
                 \/ op = "closeInput" /\ inputAudioContextRef # 0
                      /\ chains'[inputAudioContextRef].inCtx = "running"
                 \/ op = "closeOutput" /\ outputAudioContextRef # 0
                      /\ chains'[outputAudioContextRef].outCtx = "running"
                 \/ op = "track" /\ streamRef # 0 /\ chains'[streamRef].track = "live"
                 \/ op = "processor" /\ processorRef # 0
                      /\ chains'[processorRef].procNode = "on"
                 \/ op = "inputSource" /\ inputSourceRef # 0
                      /\ chains'[inputSourceRef].srcNode = "on" }) <= 1 ]_vars

\* C24 (as claimed): connected and retrying are never both true, and while a
\* connection is open and shown as connected retrying is false.
C24_NotConnectedAndRetrying == ~(connected /\ isRetrying)

\* the startSession call of chain c has settled: its connection opened, its
\* setup failed, or its retry loop gave up
Settled(c) ==
  c \in Chains /\ chains[c].pc \in {"open", "setupfail", "fatal", "exhausted", "cancelled"}

\* the observable state of an Active session
ShowsActive == connected /\ ~isRetrying /\ error = NoError

\* the observable state of a Disconnected session with its error shown
ShowsDisconnected ==
  ~connected /\ ~isRetrying /\ error.kind \notin {"null", "retrying"}

\* C25: when microphone requests and connection attempts settle and timers
\* fire, every startSession call settles; the step in which it settles leaves
\* the state Active (connected, not retrying, no error) or Disconnected (not
\* connected, not retrying, error shown); and retrying is shown only while a
\* connection attempt is in flight or a retry timer is pending.
C25_StartSettles ==
  /\ \A c \in 1..SessMaxStarts : [](c \in Chains => <>Settled(c))
  /\ [][ \A c \in DOMAIN chains' :
           (~Settled(c) /\ Settled(c)') =>
             IF chains'[c].pc = "open" THEN ShowsActive' ELSE ShowsDisconnected' ]_vars
  /\ [](isRetrying => \E c \in Chains : chains[c].pc \in {"connect", "timer"})

C25_Witness ==
  /\ Len(chains) = 2
  /\ chains[1].pc = "exhausted" /\ chains[2].pc = "cancelled"
  /\ lastOp = "connectFailed"
  /\ ShowsDisconnected

====
